---------------------------- MODULE Spec2Model ----------------------------
(* Model of the RBAC document store: the user store and audit log of        *)
(* auth.py, the ingestion / retrieval / answer pipeline of rag.py and the   *)
(* page handlers of app.py.                                                 *)
EXTENDS Integers, Sequences, FiniteSets, TLC

VARIABLES usersFile,            \* users.json: None while absent, else username -> user dict
          documents,            \* documents/<id>.json: id -> Document
          document_collection,  \* the chunk collection: chunk id -> [document, metadata]
          audit_log,            \* audit_log.json: the lines, oldest first
          next_id,              \* stands for uuid4: the next unused document id
          llm,                  \* "none" when GROQ_API_KEY is unset, else "groq"
          session,              \* st.session_state: [authenticated, user]
          ret                   \* the last call and what it returned

vars == <<usersFile, documents, document_collection, audit_log, next_id, llm,
          session, ret>>

None == << >>

(* ------------------------------ bounds ---------------------------------- *)
\* documents ever ingested
MaxDocs == 2
\* no call that logs is made once the audit log holds this many lines
MaxAudit == 3
\* the limits passed to get_audit_logs are 0..MaxLimit
MaxLimit == 2
\* the values datetime.now() takes
MaxTime == 1
\* chunks of the large PDF: more than the top_k * 3 chunks a query asks for
BigPdfChunks == 16

(* --------------------------- models.py ---------------------------------- *)
Role == {"EXECUTIVE", "MANAGER", "EMPLOYEE"}

RoleValue(r) ==
    CASE r = "EXECUTIVE" -> "Executive"
      [] r = "MANAGER" -> "Manager"
      [] r = "EMPLOYEE" -> "Employee"

\* Role("Executive"): the member with that value
RoleOf(v) == CHOOSE r \in Role : RoleValue(r) = v

User(username, hashed_password, role, department) ==
    [username |-> username, hashed_password |-> hashed_password,
     role |-> role, department |-> department, last_login |-> None]

AuditLog(user_id, user_role, action, details) ==
    [user_id |-> user_id, user_role |-> user_role, action |-> action,
     details |-> details]

(* ----------------------------- auth.py ---------------------------------- *)
get_password_hash(password) == <<"bcrypt", password>>

verify_password(plain_password, hashed_password) ==
    hashed_password = get_password_hash(plain_password)

default_users ==
    [u \in {"admin", "manager", "employee"} |->
        CASE u = "admin" ->
               User("admin", get_password_hash("admin123"), "EXECUTIVE", "Management")
          [] u = "manager" ->
               User("manager", get_password_hash("manager123"), "MANAGER", "HR")
          [] u = "employee" ->
               User("employee", get_password_hash("employee123"), "EMPLOYEE", "Support")]

\* json.dump(log.dict(), default=str): the enum is written by its value
LogLine(log) == [log EXCEPT !.user_role = RoleValue(log.user_role)]

log_action(username, role, action, details) ==
    audit_log' = Append(audit_log, LogLine(AuditLog(username, role, action, details)))

\* has_access_to_document with the membership test lost: any listed role admits
has_access_any_listed(user_role, document_access_roles) ==
    IF user_role = "EXECUTIVE"
    THEN TRUE
    ELSE Len(document_access_roles) > 0

has_access_to_document(user_role, document_access_roles) ==
    IF user_role = "EXECUTIVE"
    THEN TRUE
    ELSE \E i \in 1..Len(document_access_roles) : document_access_roles[i] = user_role


\* user.dict() written with json.dump(default=str): the role by its value
UserDict(user) == [user EXCEPT !.role = RoleValue(user.role)]

\* User(**user_data): the value parsed back to the enum member
ParseUser(user_data) == [user_data EXCEPT !.role = RoleOf(user_data.role)]

SavedUsers(users) == [u \in DOMAIN users |-> UserDict(users[u])]

save_users(users) == usersFile' = SavedUsers(users)

\* what get_users returns; an absent file is first written with the defaults
get_users ==
    IF usersFile = None
    THEN default_users
    ELSE [u \in DOMAIN usersFile |-> ParseUser(usersFile[u])]

\* the file as get_users leaves it when the caller saves nothing afterwards
UsersFileAfterGet ==
    IF usersFile = None THEN SavedUsers(default_users) ELSE usersFile

(* ------------------------------ inputs ---------------------------------- *)
Usernames == {"admin", "manager", "employee", "alice", "nobody"}
Passwords == {"admin123", "manager123", "employee123"}
NewUsernames == {"alice", "admin"}
NewDepartments == {"HR"}
Times == 1..MaxTime
Queries == {"budget"}
Files == {"memo.pdf", "handbook.pdf"}
Titles == {""}
Limits == 0..MaxLimit

\* the access lists a caller passes, as lists of Role members
AccessLists ==
    {<<>>, <<"EMPLOYEE">>, <<"MANAGER", "EMPLOYEE">>, <<"EXECUTIVE">>,
     <<"EXECUTIVE", "MANAGER", "EMPLOYEE">>}

\* the User objects a caller can hold: those the user store yields
Principals == {get_users[u] : u \in DOMAIN get_users}

(* ------------------------------ rag.py ---------------------------------- *)
DefaultTopK == 5
DefaultLimit == 100

\* text_splitter.split_text(text): how many chunks the file's text gives
NumChunks(file_path) ==
    CASE file_path = "memo.pdf" -> 1
      [] file_path = "notes.pdf" -> 2
      [] file_path = "handbook.pdf" -> BigPdfChunks

\* chunk i of the file's text
ChunkText(file_path, i) == <<file_path, i>>

\* the cosine distance the embedding gives between a query and a chunk
Distance(query, document) ==
    CASE document[1] = "memo.pdf" -> 2
      [] document[1] = "notes.pdf" -> IF query = "budget" THEN 3 ELSE 1
      [] document[1] = "handbook.pdf" -> IF query = "budget" THEN 1 ELSE 3

\* os.path.basename(file_path)
Basename(file_path) == file_path

SeqToSet(s) == {s[i] : i \in 1..Len(s)}

\* [role.value for role in access_roles], and json.dumps of it
RoleValueList(access_roles) ==
    [i \in 1..Len(access_roles) |-> RoleValue(access_roles[i])]

\* [Role(role) for role in json.loads(...)]
RoleList(values) == [i \in 1..Len(values) |-> RoleOf(values[i])]

DefaultAccessRoles(role) ==
    CASE role = "EXECUTIVE" -> <<"EXECUTIVE", "MANAGER", "EMPLOYEE">>
      [] role = "MANAGER" -> <<"MANAGER", "EMPLOYEE">>
      [] OTHER -> <<"EMPLOYEE">>

\* lines 50-60: the title and access list process_pdf goes on with
EffectiveTitle(file_path, title) == IF title = "" THEN Basename(file_path) ELSE title

EffectiveRoles(user, access_roles) ==
    IF access_roles = <<>> THEN DefaultAccessRoles(user.role) ELSE access_roles

\* AssignError with the Manager check lost
AssignError_no_manager_check(user, access_roles) ==
    IF user.role = "EMPLOYEE" /\ \E i \in 1..Len(access_roles) : access_roles[i] # "EMPLOYEE"
    THEN "ValueError: Employees can only assign Employee-level access"
    ELSE ""

\* lines 62-67: the ValueError process_pdf raises, "" when none
AssignError(user, access_roles) ==
    IF user.role = "EMPLOYEE" /\ \E i \in 1..Len(access_roles) : access_roles[i] # "EMPLOYEE"
    THEN "ValueError: Employees can only assign Employee-level access"
    ELSE IF user.role = "MANAGER" /\ "EXECUTIVE" \in SeqToSet(access_roles)
    THEN "ValueError: Managers cannot assign Executive-level access"
    ELSE ""

Document(doc_id, title, department, access_roles, uploaded_by) ==
    [id |-> doc_id, title |-> title, department |-> department,
     access_roles |-> RoleValueList(access_roles), uploaded_by |-> uploaded_by]

ChunkMetadata(doc_id, title, i, access_roles, user) ==
    [document_id |-> doc_id, title |-> title, chunk |-> i,
     access_roles |-> RoleValueList(access_roles),
     department |-> user.department, uploaded_by |-> user.username]

\* f"{doc_id}_{i}" and doc_id.split("_")[0]
ChunkId(doc_id, i) == <<doc_id, i>>
OriginalDocId(chunk_id) == chunk_id[1]

process_pdf(file_path, user, title0, access_roles0) ==
    LET title == EffectiveTitle(file_path, title0)
        access_roles == EffectiveRoles(user, access_roles0)
        error == AssignError(user, access_roles)
        doc_id == next_id
        n == NumChunks(file_path)
        document == Document(doc_id, title, user.department, access_roles, user.username)
        added == [id \in {ChunkId(doc_id, i) : i \in 0..(n - 1)} |->
                    [document |-> ChunkText(file_path, id[2]),
                     metadata |-> ChunkMetadata(doc_id, title, id[2], access_roles, user)]]
    IN  IF error # ""
        THEN /\ ret' = [op |-> "process_pdf", user |-> user, access_roles |-> access_roles0,
                        raised |-> error, result |-> None]
             /\ UNCHANGED <<usersFile, documents, document_collection, audit_log,
                            next_id, llm>>
        ELSE /\ next_id <= MaxDocs
             /\ Len(audit_log) < MaxAudit
             /\ next_id' = next_id + 1
             /\ documents' = [id \in DOMAIN documents \cup {doc_id} |->
                                IF id = doc_id THEN document ELSE documents[id]]
             /\ document_collection' =
                    [id \in DOMAIN document_collection \cup DOMAIN added |->
                        IF id \in DOMAIN added THEN added[id] ELSE document_collection[id]]
             /\ log_action(user.username, user.role, "upload_document",
                           [document_id |-> doc_id, title |-> title,
                            access_roles |-> RoleValueList(access_roles)])
             /\ ret' = [op |-> "process_pdf", user |-> user, access_roles |-> access_roles0,
                        raised |-> "", result |-> document]
             /\ UNCHANGED <<usersFile, llm>>

get_document_metadata(doc_id) ==
    IF doc_id \in DOMAIN documents THEN documents[doc_id] ELSE None

\* chunk a ranks before chunk b for the query: nearer first, then as inserted
Nearer(collection, query, a, b) ==
    LET da == Distance(query, collection[a].document)
        db == Distance(query, collection[b].document)
    IN  \/ da < db
        \/ da = db /\ a[1] < b[1]
        \/ da = db /\ a[1] = b[1] /\ a[2] < b[2]

\* the chunk ids of the collection in the order they were added
RECURSIVE Inserted(_, _)
Inserted(ids, doc_id) ==
    IF doc_id = 0 THEN <<>>
    ELSE LET n == Cardinality({id \in ids : id[1] = doc_id})
         IN  Inserted(ids, doc_id - 1) \o [k \in 1..n |-> ChunkId(doc_id, k - 1)]

\* the chunks of the collection, nearest first
Ranked(collection, query) ==
    SortSeq(Inserted(DOMAIN collection, next_id),
            LAMBDA a, b : Nearer(collection, query, a, b))

\* document_collection.query(query_texts=[query], n_results=n): the n nearest
\* chunks, as (id, document, metadata, distance)
Query(collection, query, n) ==
    LET all == Ranked(collection, query)
        m == IF Len(all) < n THEN Len(all) ELSE n
    IN  [i \in 1..m |->
            [id |-> all[i], document |-> collection[all[i]].document,
             metadata |-> collection[all[i]].metadata,
             distance |-> Distance(query, collection[all[i]].document)]]

\* lines 165-194: the loop over the query's results
RECURSIVE FilterLoop(_, _, _, _, _, _)
FilterLoop(results, i, user, top_k, filtered_results, seen_doc_ids) ==
    IF i > Len(results) THEN filtered_results
    ELSE
      LET original_doc_id == OriginalDocId(results[i].id)
          metadata == results[i].metadata
          access_roles == RoleList(metadata.access_roles)
          skip == FilterLoop(results, i + 1, user, top_k, filtered_results, seen_doc_ids)
      IN  IF original_doc_id \in seen_doc_ids THEN skip
          ELSE IF ~has_access_to_document(user.role, access_roles) THEN skip
          ELSE IF user.role # "EXECUTIVE" /\ metadata.department # user.department THEN skip
          ELSE LET appended == Append(filtered_results,
                                  [document_id |-> original_doc_id,
                                   title |-> metadata.title,
                                   chunk |-> results[i].document,
                                   metadata |-> metadata,
                                   relevance_score |-> results[i].distance])
               IN  IF Len(appended) >= top_k THEN appended
                   ELSE FilterLoop(results, i + 1, user, top_k, appended,
                                   seen_doc_ids \cup {original_doc_id})

\* what search_documents returns over a given collection
SearchResults(collection, query, user, top_k) ==
    FilterLoop(Query(collection, query, top_k * 3), 1, user, top_k, <<>>, {})

search_documents(query, user, top_k) ==
    /\ Len(audit_log) < MaxAudit
    /\ log_action(user.username, user.role, "search", [query |-> query])
    /\ ret' = [op |-> "search_documents", user |-> user, query |-> query,
               top_k |-> top_k,
               result |-> SearchResults(document_collection, query, user, top_k)]
    /\ UNCHANGED <<usersFile, documents, document_collection, next_id, llm>>


\* lines 223-236: the prompt, as the query and the context's (title, chunk) parts
Prompt(query, search_results) ==
    [query |-> query,
     context |-> [i \in 1..Len(search_results) |->
                    <<search_results[i].metadata.title, search_results[i].chunk>>]]

\* lines 243-248 and 255-260
Sources(search_results) ==
    [i \in 1..Len(search_results) |->
        [title |-> search_results[i].metadata.title,
         document_id |-> search_results[i].document_id]]

\* what generate_answer hands to the LLM (None when it does not call it) and
\* what it returns, over a given collection; llm_raises is the call's outcome
Answer(collection, query, user, llm_raises) ==
    LET search_results == SearchResults(collection, query, user, DefaultTopK)
        prompt == Prompt(query, search_results)
    IN  IF llm = "none"
        THEN [prompt |-> None,
              result |-> [answer |-> <<"Sorry, the chat functionality is not available">>,
                          sources |-> <<>>]]
        ELSE IF search_results = <<>>
        THEN [prompt |-> None,
              result |-> [answer |-> <<"I couldn't find any documents">>,
                          sources |-> <<>>]]
        ELSE IF llm_raises
        THEN [prompt |-> prompt,
              result |-> [answer |-> <<"Sorry, I encountered an error">>,
                          sources |-> Sources(search_results)]]
        ELSE [prompt |-> prompt,
              result |-> [answer |-> <<"response.content", prompt>>,
                          sources |-> Sources(search_results)]]

generate_answer(query, user, llm_raises) ==
    LET a == Answer(document_collection, query, user, llm_raises)
    IN  /\ llm # "none" => Len(audit_log) < MaxAudit
        /\ audit_log' =
             IF llm = "none" THEN audit_log
             ELSE Append(Append(audit_log,
                                LogLine(AuditLog(user.username, user.role, "query",
                                                 [query |-> query]))),
                         LogLine(AuditLog(user.username, user.role, "search",
                                          [query |-> query])))
        /\ ret' = [op |-> "generate_answer", user |-> user, query |-> query,
                   llm_raises |-> llm_raises, prompt |-> a.prompt, result |-> a.result]
        /\ UNCHANGED <<usersFile, documents, document_collection, next_id, llm>>

\* DeleteRefused with the Manager check lost
DeleteRefused_no_manager_check(doc_id, user) ==
    IF doc_id \notin DOMAIN documents THEN TRUE
    ELSE user.role = "EMPLOYEE"

\* lines 273-282: whether delete_document refuses
DeleteRefused(doc_id, user) ==
    LET document == get_document_metadata(doc_id)
    IN  IF document = None THEN TRUE
        ELSE IF user.role = "EMPLOYEE" THEN TRUE
        ELSE IF user.role = "MANAGER"
                /\ "EXECUTIVE" \in SeqToSet(RoleList(document.access_roles))
        THEN TRUE
        ELSE FALSE

\* delete_document between what its caller logs before it and, when it has
\* deleted, after it
DeleteFrom(before, after, doc_id, user) ==
    IF DeleteRefused(doc_id, user)
    THEN /\ ret' = [op |-> "delete_document", user |-> user, doc_id |-> doc_id,
                    result |-> FALSE]
         /\ audit_log' = before
         /\ UNCHANGED <<usersFile, documents, document_collection, next_id, llm>>
    ELSE /\ LET ids == {id \in DOMAIN document_collection :
                          document_collection[id].metadata.document_id = doc_id}
            IN  document_collection' =
                    [id \in DOMAIN document_collection \ ids |-> document_collection[id]]
         /\ documents' = [id \in DOMAIN documents \ {doc_id} |-> documents[id]]
         /\ audit_log' =
              Append(before,
                     LogLine(AuditLog(user.username, user.role, "delete_document",
                                      [document_id |-> doc_id,
                                       title |-> documents[doc_id].title]))) \o after
         /\ ret' = [op |-> "delete_document", user |-> user, doc_id |-> doc_id,
                    result |-> TRUE]
         /\ UNCHANGED <<usersFile, next_id, llm>>

delete_document(doc_id, user) ==
    /\ DeleteRefused(doc_id, user) \/ Len(audit_log) < MaxAudit
    /\ DeleteFrom(audit_log, <<>>, doc_id, user)

\* lines 321-324: read line i, stop once len(logs) >= limit
RECURSIVE ReadLogs(_, _, _)
ReadLogs(logs, i, limit) ==
    IF i > Len(audit_log) THEN logs
    ELSE LET appended == Append(logs, audit_log[i])
         IN  IF Len(appended) >= limit THEN appended
             ELSE ReadLogs(appended, i + 1, limit)

AuditLogsFor(user, limit) ==
    IF user.role # "EXECUTIVE" THEN <<>> ELSE ReadLogs(<<>>, 1, limit)

get_audit_logs(user, limit) ==
    /\ ret' = [op |-> "get_audit_logs", user |-> user, limit |-> limit,
               result |-> AuditLogsFor(user, limit)]
    /\ UNCHANGED <<usersFile, documents, document_collection, audit_log, next_id, llm>>

(* --------------------------- auth.py, cont. ----------------------------- *)
\* Authenticated with the password check lost
Authenticated_no_password(username, password) ==
    IF username \notin DOMAIN get_users THEN None ELSE get_users[username]

\* lines 79-84: the user authenticate_user accepts, or None
Authenticated(username, password) ==
    LET users == get_users
    IN  IF username \notin DOMAIN users THEN None
        ELSE IF ~verify_password(password, users[username].hashed_password) THEN None
        ELSE users[username]

authenticate_user(username, password, now) ==
    LET users == get_users
        found == Authenticated(username, password)
    IN  IF found = None
        THEN /\ usersFile' = UsersFileAfterGet
             /\ ret' = [op |-> "authenticate_user", username |-> username,
                        password |-> password, result |-> None]
             /\ UNCHANGED <<documents, document_collection, audit_log, next_id, llm>>
        ELSE /\ Len(audit_log) < MaxAudit
             /\ LET user == [found EXCEPT !.last_login = <<now>>]
                IN  /\ save_users([users EXCEPT ![username] = user])
                    /\ log_action(username, user.role, "login", None)
                    /\ ret' = [op |-> "authenticate_user", username |-> username,
                               password |-> password, result |-> user]
             /\ UNCHANGED <<documents, document_collection, next_id, llm>>

create_user(username, password, role, department) ==
    LET users == get_users
    IN  IF username \in DOMAIN users
        THEN /\ usersFile' = UsersFileAfterGet
             /\ ret' = [op |-> "create_user", username |-> username,
                        raised |-> "ValueError: User already exists", result |-> None]
             /\ UNCHANGED <<documents, document_collection, audit_log, next_id, llm>>
        ELSE LET new_user == User(username, get_password_hash(password), role, department)
             IN  /\ save_users([u \in DOMAIN users \cup {username} |->
                                  IF u = username THEN new_user ELSE users[u]])
                 /\ ret' = [op |-> "create_user", username |-> username,
                            raised |-> "", result |-> new_user]
                 /\ UNCHANGED <<documents, document_collection, audit_log, next_id,
                                llm>>

(* ------------------ the functions called directly ----------------------- *)
NoSession == [authenticated |-> FALSE, user |-> None]

Init ==
    /\ usersFile = None
    /\ documents = << >>
    /\ document_collection = << >>
    /\ audit_log = << >>
    /\ next_id = 1
    /\ llm \in {"none", "groq"}
    /\ session = NoSession
    /\ ret = [op |-> "none"]

CallAuthenticate ==
    /\ \E username \in Usernames, password \in Passwords, now \in Times :
          authenticate_user(username, password, now)
    /\ UNCHANGED session

CallCreateUser ==
    /\ \E username \in NewUsernames, role \in Role, department \in NewDepartments :
          create_user(username, "alice123", role, department)
    /\ UNCHANGED session

CallProcessPdf ==
    /\ \E file_path \in Files, user \in Principals, title \in Titles,
          access_roles \in AccessLists :
          process_pdf(file_path, user, title, access_roles)
    /\ UNCHANGED session

CallSearch ==
    /\ \E query \in Queries, user \in Principals :
          search_documents(query, user, DefaultTopK)
    /\ UNCHANGED session

CallGenerateAnswer ==
    /\ \E query \in Queries, user \in Principals, llm_raises \in BOOLEAN :
          generate_answer(query, user, llm_raises)
    /\ UNCHANGED session

CallDelete ==
    /\ \E doc_id \in 1..MaxDocs, user \in Principals : delete_document(doc_id, user)
    /\ UNCHANGED session

CallGetAuditLogs ==
    /\ \E user \in Principals, limit \in Limits : get_audit_logs(user, limit)
    /\ UNCHANGED session

\* retrieval: documents are ingested, searched and asked about by any stored user
Next ==
    \/ CallProcessPdf
    \/ CallSearch
    \/ CallGenerateAnswer

Spec == Init /\ [][Next]_vars

\* the document store: documents are ingested and deleted by any stored user
NextStore ==
    \/ CallProcessPdf
    \/ CallDelete

SpecStore == Init /\ [][NextStore]_vars

\* the user store and the audit log: auth.py, and get_audit_logs reading the log
NextAuth ==
    \/ CallAuthenticate
    \/ CallCreateUser
    \/ CallGetAuditLogs

SpecAuth == Init /\ [][NextAuth]_vars

(* ------------------------------ app.py ---------------------------------- *)
\* the pages main() shows a session; every handler runs as session.user
AppTitles == {"Plan"}

login ==
    /\ ~session.authenticated
    /\ \E username \in Usernames, password \in Passwords, now \in Times :
          authenticate_user(username, password, now)
    /\ session' = IF ret'.result # None
                  THEN [authenticated |-> TRUE, user |-> ret'.result]
                  ELSE NoSession

logout ==
    /\ session.authenticated
    /\ Len(audit_log) < MaxAudit
    /\ log_action(session.user.username, session.user.role, "logout", None)
    /\ session' = NoSession
    /\ ret' = [op |-> "logout"]
    /\ UNCHANGED <<usersFile, documents, document_collection, next_id, llm>>

\* lines 120-126: the roles the upload form offers
available_roles(role) ==
    CASE role = "EXECUTIVE" -> <<"EXECUTIVE", "MANAGER", "EMPLOYEE">>
      [] role = "MANAGER" -> <<"MANAGER", "EMPLOYEE">>
      [] OTHER -> <<"EMPLOYEE">>

\* what the multiselect can hand back: the offered roles, some left out
RECURSIVE Selections(_)
Selections(options) ==
    IF options = <<>> THEN {<<>>}
    ELSE LET rest == Selections(Tail(options))
         IN  rest \cup {<<Head(options)>> \o r : r \in rest}

\* document_upload shown to every session: the gate of main() lost
document_upload_ungated ==
    /\ session.authenticated
    /\ \E file_path \in Files, title \in AppTitles,
          selected_roles \in Selections(available_roles(session.user.role)) :
          process_pdf(file_path, session.user, title, selected_roles)
    /\ UNCHANGED session

document_upload ==
    /\ session.authenticated
    /\ session.user.role \in {"EXECUTIVE", "MANAGER"}
    /\ \E file_path \in Files, title \in AppTitles,
          selected_roles \in Selections(available_roles(session.user.role)) :
          process_pdf(file_path, session.user, title, selected_roles)
    /\ UNCHANGED session

\* lines 318-319: the Upload page of any other user
upload_refused ==
    /\ session.authenticated
    /\ session.user.role \notin {"EXECUTIVE", "MANAGER"}
    /\ ret' = [op |-> "upload_page", user |-> session.user,
               result |-> "You don't have permission to upload documents."]
    /\ UNCHANGED <<usersFile, documents, document_collection, audit_log, next_id, llm,
                   session>>

document_search ==
    /\ session.authenticated
    /\ \E query \in Queries : search_documents(query, session.user, DefaultTopK)
    /\ UNCHANGED session

\* lines 187-195: the button of a listed result; the script reruns, so the search
\* is made (and logged) again before the click is handled, and once more after
\* a deletion (st.rerun)
delete_button ==
    /\ session.authenticated
    /\ session.user.role \in {"EXECUTIVE", "MANAGER"}
    /\ \E query \in Queries :
         LET user == session.user
             results == SearchResults(document_collection, query, user, DefaultTopK)
             searched == LogLine(AuditLog(user.username, user.role, "search",
                                          [query |-> query]))
         IN  \E i \in 1..Len(results) :
               LET doc_id == results[i].document_id
               IN  /\ Len(audit_log) < MaxAudit
                   /\ DeleteFrom(Append(audit_log, searched), <<searched>>, doc_id, user)
    /\ UNCHANGED session

document_chat ==
    /\ session.authenticated
    /\ \E query \in Queries, llm_raises \in BOOLEAN :
          generate_answer(query, session.user, llm_raises)
    /\ UNCHANGED session

audit_logs ==
    /\ session.authenticated
    /\ session.user.role = "EXECUTIVE"
    /\ get_audit_logs(session.user, DefaultLimit)
    /\ UNCHANGED session

user_management ==
    /\ session.authenticated
    /\ session.user.role = "EXECUTIVE"
    /\ \E username \in NewUsernames, role \in Role, department \in NewDepartments :
          create_user(username, "alice123", role, department)
    /\ UNCHANGED session

main ==
    \/ login
    \/ logout
    \/ document_upload
    \/ upload_refused
    \/ document_search
    \/ delete_button
    \/ document_chat
    \/ audit_logs
    \/ user_management

SpecApp == Init /\ [][main]_vars


(* ------------------------------ claims ---------------------------------- *)
\* the role/department policy, on a document's metadata file
PolicyAllows(user, document) ==
    \/ user.role = "EXECUTIVE"
    \/ /\ RoleValue(user.role) \in SeqToSet(document.access_roles)
       /\ document.department = user.department

VisibleDocs(user) == {d \in DOMAIN documents : PolicyAllows(user, documents[d])}

\* the collection without the chunks of documents none of the users may see
VisibleOnly(users) ==
    LET keep == {id \in DOMAIN document_collection :
                    \E u \in users : OriginalDocId(id) \in VisibleDocs(u)}
    IN  [id \in keep |-> document_collection[id]]

\* C1: every entry search_documents returns is a chunk of a stored document that
\* the role/department policy lets the searching user see.
C1_SearchReturnsOnlyAllowed ==
    ret.op = "search_documents" =>
        \A i \in 1..Len(ret.result) :
            LET entry == ret.result[i]
            IN  /\ entry.document_id \in VisibleDocs(ret.user)
                /\ \E id \in DOMAIN document_collection :
                      /\ OriginalDocId(id) = entry.document_id
                      /\ document_collection[id].document = entry.chunk

\* a non-executive got a result while a document they may not see is stored
C1_Witness ==
    /\ ret.op = "search_documents"
    /\ ret.user.role # "EXECUTIVE"
    /\ Len(ret.result) > 0
    /\ \E d \in DOMAIN documents : d \notin VisibleDocs(ret.user)

\* C2: the prompt and the sources of generate_answer come from the entries
\* search_documents returns for that user, whether or not the LLM call raises,
\* and the prompt is the one any user with the same visible documents gets from
\* a collection without the documents neither can see.
C2_AnswerGroundedInVisible ==
    ret.op = "generate_answer" =>
        LET found == SearchResults(document_collection, ret.query, ret.user, DefaultTopK)
        IN  /\ ret.prompt # None => ret.prompt = Prompt(ret.query, found)
            /\ ret.prompt # None => ret.result.sources = Sources(found)
            /\ ret.prompt = None => ret.result.sources = <<>>
            /\ \A other \in Principals :
                  VisibleDocs(other) = VisibleDocs(ret.user) =>
                      ret.prompt = Answer(VisibleOnly({ret.user, other}), ret.query,
                                          other, ret.llm_raises).prompt

\* the part of C2 that holds: prompt and sources are built from the filtered entries
C2_PromptFromFilteredEntries ==
    ret.op = "generate_answer" =>
        LET found == SearchResults(document_collection, ret.query, ret.user, DefaultTopK)
        IN  /\ ret.prompt # None => ret.prompt = Prompt(ret.query, found)
            /\ ret.prompt # None => ret.result.sources = Sources(found)
            /\ ret.prompt = None => ret.result.sources = <<>>
            /\ \A i \in 1..Len(ret.result.sources) :
                  ret.result.sources[i].document_id \in VisibleDocs(ret.user)

\* the access lists the uploader may not assign
MayNotAssign(role, access_roles) ==
    \/ role = "EMPLOYEE" /\ \E r \in SeqToSet(access_roles) : r # "EMPLOYEE"
    \/ role = "MANAGER" /\ "EXECUTIVE" \in SeqToSet(access_roles)

StoredRolesAllowed ==
    /\ \A d \in DOMAIN documents :
          ~MayNotAssign(get_users[documents[d].uploaded_by].role,
                        RoleList(documents[d].access_roles))
    /\ \A id \in DOMAIN document_collection :
          ~MayNotAssign(get_users[document_collection[id].metadata.uploaded_by].role,
                        RoleList(document_collection[id].metadata.access_roles))

\* C3: process_pdf raises ValueError for an access list the uploader may not
\* assign and then writes no metadata file, no chunk and no audit entry; every
\* stored document's access_roles are ones its uploader may assign.
C3_RejectedUploadWritesNothing ==
    [][/\ ret'.op = "process_pdf" =>
            /\ MayNotAssign(ret'.user.role, ret'.access_roles) => ret'.raised # ""
            /\ ret'.raised # "" =>
                  /\ MayNotAssign(ret'.user.role, ret'.access_roles)
                  /\ UNCHANGED <<documents, document_collection, audit_log>>
       /\ StoredRolesAllowed']_vars

\* an upload was rejected while a document is stored
C3_Witness ==
    /\ ret.op = "process_pdf"
    /\ ret.raised # ""
    /\ DOMAIN documents # {}

\* C4: delete_document returns False and changes nothing when the document has
\* no metadata file, the user is an Employee, or the user is a Manager and the
\* document's access_roles contain Executive; otherwise it returns True.
C4_DeleteOnlyWithPermission ==
    [][ret'.op = "delete_document" =>
          LET doc_id == ret'.doc_id
              user == ret'.user
          IN  IF \/ doc_id \notin DOMAIN documents
                 \/ user.role = "EMPLOYEE"
                 \/ /\ user.role = "MANAGER"
                    /\ "Executive" \in SeqToSet(documents[doc_id].access_roles)
              THEN /\ ret'.result = FALSE
                   /\ UNCHANGED <<documents, document_collection, audit_log>>
              ELSE ret'.result = TRUE]_vars

\* a Manager was refused the deletion of a stored document
C4_Witness ==
    /\ ret.op = "delete_document"
    /\ ret.result = FALSE
    /\ ret.user.role = "MANAGER"
    /\ ret.doc_id \in DOMAIN documents

\* C5: no metadata file and no chunk is stored on behalf of an Employee.
C5_NoEmployeeUpload ==
    /\ \A d \in DOMAIN documents :
          get_users[documents[d].uploaded_by].role # "EMPLOYEE"
    /\ \A id \in DOMAIN document_collection :
          get_users[document_collection[id].metadata.uploaded_by].role # "EMPLOYEE"

\* an Employee's session opened the Upload page
C5_Witness ==
    /\ ret.op = "upload_page"
    /\ session.authenticated
    /\ session.user.role = "EMPLOYEE"

\* C6: get_audit_logs returns nothing to a Manager or Employee, and to an
\* Executive at most `limit` entries, each one a line of the audit log.
C6_AuditLogsOnlyForExecutives ==
    ret.op = "get_audit_logs" =>
        IF ret.user.role # "EXECUTIVE"
        THEN ret.result = <<>>
        ELSE /\ Len(ret.result) <= ret.limit
             /\ \A i \in 1..Len(ret.result) : ret.result[i] \in SeqToSet(audit_log)

\* the part of C6 that holds: nothing for other roles, and for an Executive at
\* most max(limit, 1) entries of the log
C6_AuditLogsAtMostLimitOrOne ==
    ret.op = "get_audit_logs" =>
        IF ret.user.role # "EXECUTIVE"
        THEN ret.result = <<>>
        ELSE /\ Len(ret.result) <= (IF ret.limit < 1 THEN 1 ELSE ret.limit)
             /\ \A i \in 1..Len(ret.result) : ret.result[i] \in SeqToSet(audit_log)

\* C7: when the log holds more than `limit` entries, an Executive gets the
\* `limit` most recently appended ones.
C7_AuditLogsMostRecent ==
    (/\ ret.op = "get_audit_logs"
     /\ ret.user.role = "EXECUTIVE"
     /\ ret.limit >= 1
     /\ Len(audit_log) > ret.limit) =>
        ret.result = SubSeq(audit_log, Len(audit_log) - ret.limit + 1, Len(audit_log))

\* what the code returns instead: the `limit` oldest entries
C7_AuditLogsOldest ==
    (/\ ret.op = "get_audit_logs"
     /\ ret.user.role = "EXECUTIVE"
     /\ ret.limit >= 1
     /\ Len(audit_log) > ret.limit) =>
        ret.result = SubSeq(audit_log, 1, ret.limit)

\* C8: authenticate_user returns the user exactly when the username is in the
\* user store and the password verifies against its stored hash. A failed
\* attempt changes neither the users get_users yields nor the audit log; a
\* successful one sets that user's last_login, leaves the other users as they
\* were and appends exactly one login entry.
C8_AuthenticateContract ==
    [][ret'.op = "authenticate_user" =>
          LET username == ret'.username
              users == get_users
          IN  IF /\ username \in DOMAIN users
                 /\ users[username].hashed_password = <<"bcrypt", ret'.password>>
              THEN /\ ret'.result # None
                   /\ ret'.result.username = username
                   /\ ret'.result.last_login # None
                   /\ DOMAIN get_users' = DOMAIN users
                   /\ get_users'[username] = ret'.result
                   /\ [ret'.result EXCEPT !.last_login = users[username].last_login]
                         = users[username]
                   /\ \A other \in DOMAIN users \ {username} :
                         get_users'[other] = users[other]
                   /\ audit_log' =
                         Append(audit_log,
                                [user_id |-> username,
                                 user_role |-> RoleValue(users[username].role),
                                 action |-> "login", details |-> None])
              ELSE /\ ret'.result = None
                   /\ get_users' = users
                   /\ audit_log' = audit_log]_vars

\* a login succeeded while another user has never logged in and one has been created
C8_Witness ==
    /\ ret.op = "authenticate_user"
    /\ ret.result # None
    /\ "alice" \in DOMAIN get_users
    /\ \E other \in DOMAIN get_users : get_users[other].last_login = None

============================================================================
